---- MODULE Spec2Model ----
(***************************************************************************)
(* Durable links: creation (CreateDurableLink / createOrGetShortLink) and  *)
(* resolution (ResolveShortPath) of short links over a persistent store.   *)
(* Strings are sequences of one-character strings, so that formatting,     *)
(* parsing, trimming, splitting and query encoding are computed and not    *)
(* assumed.                                                                *)
(***************************************************************************)
EXTENDS Integers, Sequences, FiniteSets, TLC

\* ------------------------------------------------------------------ bounds
\* number of concurrently served creation requests
NumClients == 2
\* number of distinct tokens of each length the random generator may return
TokenChoices == 2

\* ---------------------------------------------------------- configuration
ShortPathLength == 6
UnguessablePathLength == 10
URLScheme == <<"h","t","t","p","s">>
AllowedDomains == << <<"e","x","a","m","p","l","e",".","c","o","m">> >>

\* --------------------------------------------------------- string library
Empty == <<>>

HasPrefix(s, p) == Len(s) >= Len(p) /\ SubSeq(s, 1, Len(p)) = p

HasSuffix(s, p) == Len(s) >= Len(p) /\ SubSeq(s, Len(s) - Len(p) + 1, Len(s)) = p

TrimPrefix(s, p) == IF HasPrefix(s, p) THEN SubSeq(s, Len(p) + 1, Len(s)) ELSE s

TrimSuffix(s, p) == IF HasSuffix(s, p) THEN SubSeq(s, 1, Len(s) - Len(p)) ELSE s

\* index of the first occurrence of character ch in s, 0 when absent
IndexByte(s, ch) ==
  IF \E i \in 1..Len(s) : s[i] = ch
  THEN CHOOSE i \in 1..Len(s) : s[i] = ch /\ \A j \in 1..(i - 1) : s[j] # ch
  ELSE 0

\* strings.Trim(s, cutset) for a one-character cutset
Trim(s, ch) ==
  LET keep == {i \in 1..Len(s) : s[i] # ch}
  IN IF keep = {} THEN Empty
     ELSE LET lo == CHOOSE i \in keep : \A j \in keep : i <= j
              hi == CHOOSE i \in keep : \A j \in keep : i >= j
          IN SubSeq(s, lo, hi)

\* strings.Split(s, sep) for a one-character separator: always at least one part
RECURSIVE Split(_, _)
Split(s, ch) ==
  IF IndexByte(s, ch) = 0 THEN << s >>
  ELSE << SubSeq(s, 1, IndexByte(s, ch) - 1) >>
       \o Split(SubSeq(s, IndexByte(s, ch) + 1, Len(s)), ch)

\* strings.SplitN(s, sep, 2)
SplitN2(s, ch) ==
  IF IndexByte(s, ch) = 0 THEN << s >>
  ELSE << SubSeq(s, 1, IndexByte(s, ch) - 1), SubSeq(s, IndexByte(s, ch) + 1, Len(s)) >>

\* byte order of the characters that occur in query keys
KeyAlphabet == <<"_","a","b","c","d","e","f","g","h","i","j","k","l","m","n","o","p","q","r","s","t","u","v","w","x","y","z">>

Ord(ch) == CHOOSE i \in 1..Len(KeyAlphabet) : KeyAlphabet[i] = ch

\* byte-wise lexicographic order on strings (sort.Strings)
RECURSIVE StrLess(_, _)
StrLess(a, b) ==
  IF a = Empty THEN b # Empty
  ELSE IF b = Empty THEN FALSE
  ELSE IF a[1] = b[1] THEN StrLess(Tail(a), Tail(b))
  ELSE Ord(a[1]) < Ord(b[1])

Letters == { KeyAlphabet[i] : i \in 2..Len(KeyAlphabet) }

Digits == {"0", "1", "2", "3", "4", "5", "6", "7", "8", "9"}

\* characters url.QueryEscape leaves alone
Unreserved == Letters \cup Digits \cup {"-", "_", ".", "~"}

\* percent-encodings of the reserved characters used by the requests
HexOf(ch) ==
  CASE ch = ":" -> <<"%","3","A">>
    [] ch = "/" -> <<"%","2","F">>
    [] ch = "?" -> <<"%","3","F">>
    [] ch = "=" -> <<"%","3","D">>
    [] ch = "&" -> <<"%","2","6">>
    [] ch = "%" -> <<"%","2","5">>
    [] ch = "+" -> <<"%","2","B">>
    [] ch = "#" -> <<"%","2","3">>

RECURSIVE QueryEscape(_)
QueryEscape(s) ==
  IF s = Empty THEN Empty
  ELSE (IF s[1] \in Unreserved THEN << s[1] >>
        ELSE IF s[1] = " " THEN << "+" >>
        ELSE HexOf(s[1])) \o QueryEscape(Tail(s))

\* ------------------------------------------------------- net/url, as used
\* url.Values: a map from key to the list of values added under it
NoValues == [k \in {} |-> << >>]

Add(q, key, value) ==
  IF key \in DOMAIN q THEN [q EXCEPT ![key] = Append(@, value)]
  ELSE q @@ (key :> << value >>)

RECURSIVE SortKeys(_)
SortKeys(ks) ==
  IF ks = {} THEN << >>
  ELSE LET m == CHOOSE k \in ks : \A o \in ks \ {k} : StrLess(k, o)
       IN << m >> \o SortKeys(ks \ {m})

RECURSIVE EncodeKey(_, _)
EncodeKey(key, vals) ==
  IF vals = << >> THEN << >>
  ELSE << QueryEscape(key) \o << "=" >> \o QueryEscape(Head(vals)) >>
       \o EncodeKey(key, Tail(vals))

RECURSIVE EncodePairs(_, _)
EncodePairs(q, keys) ==
  IF keys = << >> THEN << >>
  ELSE EncodeKey(Head(keys), q[Head(keys)]) \o EncodePairs(q, Tail(keys))

RECURSIVE Join(_, _)
Join(parts, sep) ==
  IF parts = << >> THEN Empty
  ELSE IF Len(parts) = 1 THEN parts[1]
  ELSE parts[1] \o sep \o Join(Tail(parts), sep)

\* url.Values.Encode: "key=value" pairs in key order, joined by "&"
Encode(q) == Join(EncodePairs(q, SortKeys(DOMAIN q)), << "&" >>)

\* the part of s before the first ch (all of s when ch is absent)
Before(s, ch) == IF IndexByte(s, ch) = 0 THEN s ELSE SubSeq(s, 1, IndexByte(s, ch) - 1)

\* the part of s after the first ch (empty when ch is absent)
After(s, ch) == IF IndexByte(s, ch) = 0 THEN Empty ELSE SubSeq(s, IndexByte(s, ch) + 1, Len(s))

\* the part of s from the first ch on (empty when ch is absent)
From(s, ch) == IF IndexByte(s, ch) = 0 THEN Empty ELSE SubSeq(s, IndexByte(s, ch), Len(s))

SchemeExtra == Digits \cup {"+", "-", "."}

\* url.getScheme: where the scan for a scheme stops (0: at the end of the string)
schemeStop(u) ==
  LET stops == {i \in 1..Len(u) :
                  u[i] \notin Letters /\ ~(i > 1 /\ u[i] \in SchemeExtra)}
  IN IF stops = {} THEN 0 ELSE CHOOSE i \in stops : \A j \in stops : i <= j

\* url.getScheme, given where the scan stopped
getSchemeAt(u, stop) ==
  IF stop = 1 /\ u[1] = ":" THEN [err |-> TRUE, scheme |-> Empty, rest |-> Empty]
  ELSE IF stop > 1 /\ u[stop] = ":"
       THEN [err |-> FALSE, scheme |-> SubSeq(u, 1, stop - 1),
             rest |-> SubSeq(u, stop + 1, Len(u))]
  ELSE [err |-> FALSE, scheme |-> Empty, rest |-> u]

\* url.parse once the authority is known to be present or not
parseAuthority(err, scheme, rest, rawQuery, hasAuthority) ==
  [err |-> err \/ (hasAuthority /\ IndexByte(Before(SubSeq(rest, 3, Len(rest)), "/"), " ") # 0),
   Scheme |-> scheme,
   Host |-> IF hasAuthority THEN Before(SubSeq(rest, 3, Len(rest)), "/") ELSE Empty,
   Path |-> IF ~HasPrefix(rest, << "/" >>) /\ scheme # Empty THEN Empty
            ELSE IF hasAuthority THEN From(SubSeq(rest, 3, Len(rest)), "/")
            ELSE rest,
   RawQuery |-> rawQuery]

\* url.parse after the scheme and the query are cut off
parseRest(err, scheme, rest, rawQuery) ==
  parseAuthority(
    err \/ (~HasPrefix(rest, << "/" >>) /\ scheme = Empty /\ IndexByte(Before(rest, "/"), ":") # 0),
    scheme, rest, rawQuery,
    HasPrefix(rest, << "/", "/" >>)
      /\ (scheme # Empty \/ ~HasPrefix(rest, << "/", "/", "/" >>)))

parseScheme(s) == parseRest(s.err, s.scheme, Before(s.rest, "?"), After(s.rest, "?"))

parseNoFragment(u) == parseScheme(getSchemeAt(u, schemeStop(u)))

\* url.Parse restricted to what the requests use: scheme, authority, path, query
ParseURL(rawURL) == parseNoFragment(Before(rawURL, "#"))

\* url.Values.Get: the first value under the key, or the empty string
Get(q, key) == IF key \in DOMAIN q THEN q[key][1] ELSE Empty

\* the characters HexOf encodes
Reserved == {":", "/", "?", "=", "&", "%", "+", "#"}

\* every "%" of s starts the encoding of a reserved character
RECURSIVE wellEscaped(_)
wellEscaped(s) ==
  IF s = Empty THEN TRUE
  ELSE IF s[1] # "%" THEN wellEscaped(Tail(s))
  ELSE /\ Len(s) >= 3
       /\ \E ch \in Reserved : HexOf(ch) = SubSeq(s, 1, 3)
       /\ wellEscaped(SubSeq(s, 4, Len(s)))

\* url.QueryUnescape of a well-escaped string
RECURSIVE QueryUnescape(_)
QueryUnescape(s) ==
  IF s = Empty THEN Empty
  ELSE IF s[1] = "%"
       THEN << CHOOSE ch \in Reserved : HexOf(ch) = SubSeq(s, 1, 3) >>
            \o QueryUnescape(SubSeq(s, 4, Len(s)))
  ELSE IF s[1] = "+" THEN << " " >> \o QueryUnescape(Tail(s))
  ELSE << s[1] >> \o QueryUnescape(Tail(s))

\* url.parseQuery, one "key=value" part: empty and malformed parts are dropped
parsePair(q, part) ==
  IF part = Empty \/ IndexByte(part, ";") # 0 \/ ~wellEscaped(part) THEN q
  ELSE Add(q, QueryUnescape(Before(part, "=")), QueryUnescape(After(part, "=")))

RECURSIVE parsePairs(_, _)
parsePairs(q, parts) ==
  IF parts = << >> THEN q ELSE parsePairs(parsePair(q, Head(parts)), Tail(parts))

\* URL.Query: the values of a raw query
ParseQuery(rawQuery) == parsePairs(NoValues, Split(rawQuery, "&"))

\* ------------------------------------------------------------------ utils
\* utils.CleanHost: drops a scheme and a path, rejects an empty result
withoutScheme(raw) ==
  LET cuts == {i \in 1..Len(raw) : HasPrefix(SubSeq(raw, i, Len(raw)), << ":", "/", "/" >>)}
  IN IF cuts = {} THEN raw
     ELSE SubSeq(raw, 3 + (CHOOSE i \in cuts : \A j \in cuts : i <= j), Len(raw))

hostOrError(host) == [err |-> host = Empty, host |-> host]

CleanHost(raw) == hostOrError(Before(withoutScheme(raw), "/"))

\* utils.IsDomainAllowed: the link's host is an allowed domain or a subdomain
\* of one; an empty list allows nothing
hostAllowed(allowList, u) ==
  ~u.err /\ \E i \in 1..Len(allowList) :
     u.Host = allowList[i] \/ HasSuffix(u.Host, << "." >> \o allowList[i])

IsDomainAllowed(allowList, link) == hostAllowed(allowList, ParseURL(link))

IsNumericString(s) == s # Empty /\ \A i \in 1..Len(s) : s[i] \in Digits

absoluteURL(u) == ~u.err /\ u.Scheme # Empty /\ u.Host # Empty

IsURL(s) == absoluteURL(ParseURL(s))

TokenAlphabet == <<"a","b","c","d","e","f","g","h">>

\* utils.GenerateRandomAlphanumericString: the tokens of the given length it
\* may return (one per character of the first TokenChoices characters)
GenerateRandomAlphanumericString(length) ==
  { [i \in 1..length |-> TokenAlphabet[k]] : k \in 1..TokenChoices }

\* ------------------------------------------------------------- repository
\* the links table: rows (host, path, query, unguessable), path unique per host
ErrNoRows == "sql.ErrNoRows"
ErrDB == "db error"
ErrDuplicatePath == "duplicate path"

\* LinkRepository.GetQueryParamsByHostAndPath: its possible answers
GetQueryParamsByHostAndPath(rows, host, path) ==
  { [err |-> "", query |-> r.query] : r \in {x \in rows : x.host = host /\ x.path = path} }
  \cup (IF \E x \in rows : x.host = host /\ x.path = path THEN {}
        ELSE { [err |-> ErrNoRows, query |-> Empty] })
  \cup { [err |-> ErrDB, query |-> Empty] }

\* LinkRepository.FindExistingShortLink: a guessable row with this host and query
FindExistingShortLink(rows, host, rawQS) ==
  LET hits == {x \in rows : x.host = host /\ x.query = rawQS /\ ~x.unguessable}
  IN { [err |-> "", path |-> r.path] : r \in hits }
     \cup (IF hits = {} THEN { [err |-> ErrNoRows, path |-> Empty] } ELSE {})
     \cup { [err |-> ErrDB, path |-> Empty] }

\* LinkRepository.CreateShortLink: its possible answers and the table after each
CreateShortLink(rows, host, path, rawQS, unguessable) ==
  (IF \E x \in rows : x.host = host /\ x.path = path
   THEN { [err |-> ErrDuplicatePath, rows |-> rows] }
   ELSE { [err |-> "", rows |-> rows \cup { [host |-> host, path |-> path,
                                            query |-> rawQS, unguessable |-> unguessable] }] })
  \cup { [err |-> ErrDB, rows |-> rows] }

\* ---------------------------------------------------------------- service
\* models.CreateDurableLinkRequest with every field empty
EmptyRequest ==
  [Host |-> Empty, Link |-> Empty,
   AndroidPackageName |-> Empty, AndroidFallbackLink |-> Empty,
   AndroidMinPackageVersionCode |-> Empty,
   IosFallbackLink |-> Empty, IosIpadFallbackLink |-> Empty, IosAppStoreId |-> Empty,
   FallbackURL |-> Empty,
   SocialTitle |-> Empty, SocialDescription |-> Empty, SocialImageLink |-> Empty,
   UtmSource |-> Empty, UtmMedium |-> Empty, UtmCampaign |-> Empty,
   UtmTerm |-> Empty, UtmContent |-> Empty,
   At |-> Empty, Ct |-> Empty, Mt |-> Empty, Pt |-> Empty,
   Option |-> Empty]

ErrInvalidHost == "invalid host"
ErrDomainLinkNotAllowed == "domain link not allowed"
ErrInvalidAppStoreID == "invalid app store id"
ErrInvalidRequestedLink == "invalid requested link"
ErrInvalidPathFormat == "unexpected path format"
ErrStoreFailed == "failed to store link"

\* CreateDurableLink, the checks before the query is built: "" when they pass
validate(params) ==
  IF CleanHost(params.Host).err THEN ErrInvalidHost
  ELSE IF ~IsDomainAllowed(AllowedDomains, params.Link) THEN ErrDomainLinkNotAllowed
  ELSE IF params.IosAppStoreId # Empty /\ ~IsNumericString(params.IosAppStoreId)
       THEN ErrInvalidAppStoreID
  ELSE ""

\* the addParam closure of CreateDurableLink
addParam(q, key, value) == IF value # Empty THEN Add(q, key, value) ELSE q

\* CreateDurableLink, the query parameters it builds
queryParams(params) ==
  LET q0 == Add(NoValues, <<"l","i","n","k">>, params.Link)
      q1 == addParam(q0, <<"a","p","n">>, params.AndroidPackageName)
      q2 == addParam(q1, <<"a","f","l">>, params.AndroidFallbackLink)
      q3 == addParam(q2, <<"a","m","v">>, params.AndroidMinPackageVersionCode)
      q4 == addParam(q3, <<"i","f","l">>, params.IosFallbackLink)
      q5 == addParam(q4, <<"i","p","f","l">>, params.IosIpadFallbackLink)
      q6 == addParam(q5, <<"i","s","i">>, params.IosAppStoreId)
      q7 == addParam(q6, <<"o","f","l">>, params.FallbackURL)
      q8 == addParam(q7, <<"s","t">>, params.SocialTitle)
      q9 == addParam(q8, <<"s","d">>, params.SocialDescription)
      q10 == addParam(q9, <<"s","i">>, params.SocialImageLink)
      q11 == addParam(q10, <<"u","t","m","_","s","o","u","r","c","e">>, params.UtmSource)
      q12 == addParam(q11, <<"u","t","m","_","m","e","d","i","u","m">>, params.UtmMedium)
      q13 == addParam(q12, <<"u","t","m","_","c","a","m","p","a","i","g","n">>, params.UtmCampaign)
      q14 == addParam(q13, <<"u","t","m","_","t","e","r","m">>, params.UtmTerm)
      q15 == addParam(q14, <<"u","t","m","_","c","o","n","t","e","n","t">>, params.UtmContent)
      q16 == addParam(q15, <<"p","t">>, params.Pt)
      q17 == addParam(q16, <<"a","t">>, params.At)
      q18 == addParam(q17, <<"c","t">>, params.Ct)
      q19 == addParam(q18, <<"m","t">>, params.Mt)
  IN q19

Malformed(msg) == [WarningCode |-> "MALFORMED_PARAM", WarningMessage |-> msg]

Unrecognized(msg) == [WarningCode |-> "UNRECOGNIZED_PARAM", WarningMessage |-> msg]

MsgSi == "Param 'si' is not a valid URL"
MsgAtIsi == "Param 'at' is not needed, since 'isi' is not specified."
MsgCtIsi == "Param 'ct' is not needed, since 'isi' is not specified."
MsgMtIsi == "Param 'mt' is not needed, since 'isi' is not specified."
MsgPtIsi == "Param 'pt' is not needed, since 'isi' is not specified."
MsgAtPt == "Param 'at' is not needed, since 'pt' is not specified."
MsgCtPt == "Param 'ct' is not needed, since 'pt' is not specified."
MsgMtPt == "Param 'mt' is not needed, since 'pt' is not specified."

If(cond, w) == IF cond THEN << w >> ELSE << >>

\* CreateDurableLink, the check of the social image link
siWarnings(params) ==
  If(params.SocialImageLink # Empty /\ ~IsURL(params.SocialImageLink), Malformed(MsgSi))

\* the isi check, were at flagged only while pt is empty as well
isiWarningsUnlessPt(params) ==
  IF params.IosAppStoreId = Empty
  THEN If(params.At # Empty /\ params.Pt = Empty, Unrecognized(MsgAtIsi))
       \o If(params.Ct # Empty, Unrecognized(MsgCtIsi))
       \o If(params.Mt # Empty, Unrecognized(MsgMtIsi))
       \o If(params.Pt # Empty, Unrecognized(MsgPtIsi))
  ELSE << >>

\* CreateDurableLink, the check made when isi is empty
isiWarnings(params) ==
  IF params.IosAppStoreId = Empty
  THEN If(params.At # Empty, Unrecognized(MsgAtIsi))
       \o If(params.Ct # Empty, Unrecognized(MsgCtIsi))
       \o If(params.Mt # Empty, Unrecognized(MsgMtIsi))
       \o If(params.Pt # Empty, Unrecognized(MsgPtIsi))
  ELSE << >>

\* the pt check, were it the else-branch of the isi check
ptWarningsElse(params) ==
  IF params.IosAppStoreId # Empty /\ params.Pt = Empty
  THEN If(params.At # Empty, Unrecognized(MsgAtPt))
       \o If(params.Ct # Empty, Unrecognized(MsgCtPt))
       \o If(params.Mt # Empty, Unrecognized(MsgMtPt))
  ELSE << >>

\* CreateDurableLink, the check made when pt is empty
ptWarnings(params) ==
  IF params.Pt = Empty
  THEN If(params.At # Empty, Unrecognized(MsgAtPt))
       \o If(params.Ct # Empty, Unrecognized(MsgCtPt))
       \o If(params.Mt # Empty, Unrecognized(MsgMtPt))
  ELSE << >>

\* CreateDurableLink, the warnings it collects, in order
warnings(params) == siWarnings(params) \o isiWarnings(params) \o ptWarnings(params)

\* CreateDurableLink: shortPath := params.Suffix.Option == "SHORT"
shortPath(params) == params.Option = <<"S","H","O","R","T">>

\* createOrGetShortLink, were the reuse lookup never made
lookupNever(short) == FALSE

\* createOrGetShortLink: the reuse lookup is made for short paths only
lookupFirst(short) == short

\* createOrGetShortLink, were the short length used for every path
pathLengthShort(short) == ShortPathLength

\* createOrGetShortLink: the length of the generated path
pathLength(short) == IF ~short THEN UnguessablePathLength ELSE ShortPathLength

\* createOrGetShortLink: the unguessable flag passed to createShortLink
unguessableFlag(short) == ~short

\* fmt.Sprintf("%s://%s/%s", s.cfg.App.URLScheme, host, path)
fullLink(host, path) == URLScheme \o <<":","/","/">> \o host \o << "/" >> \o path

\* getLongLinkFromHostAndPath, the long link built from a row's query
longLinkOf(host, path, rawQueryStr) ==
  IF rawQueryStr # Empty THEN fullLink(host, path) \o << "?" >> \o rawQueryStr
  ELSE fullLink(host, path)

\* removePreviewFromHost, were the "-preview" label looked for after the prefix
\* is removed as well
removePreviewTwice(host) ==
  LET h == TrimPrefix(host, <<"p","r","e","v","i","e","w",".">>)
      parts == SplitN2(h, ".")
  IN IF Len(parts) = 2 /\ HasSuffix(parts[1], <<"-","p","r","e","v","i","e","w">>)
     THEN TrimSuffix(parts[1], <<"-","p","r","e","v","i","e","w">>) \o << "." >> \o parts[2]
     ELSE h

removePreviewFromHost(host) ==
  IF HasPrefix(host, <<"p","r","e","v","i","e","w",".">>) THEN TrimPrefix(host, <<"p","r","e","v","i","e","w",".">>)
  ELSE LET parts == SplitN2(host, ".")
       IN IF Len(parts) = 2 /\ HasSuffix(parts[1], <<"-","p","r","e","v","i","e","w">>)
          THEN TrimSuffix(parts[1], <<"-","p","r","e","v","i","e","w">>) \o << "." >> \o parts[2]
          ELSE host

\* ResolveShortPath, were the requested host passed on instead of the normalized
resolveKeyRequestedHost(rawURL) ==
  LET u == ParseURL(rawURL)
      pathParts == Split(Trim(u.Path, "/"), "/")
  IN IF u.err THEN [err |-> ErrInvalidRequestedLink, host |-> Empty, path |-> Empty]
     ELSE IF Len(pathParts) # 1
          THEN [err |-> ErrInvalidPathFormat, host |-> Empty, path |-> Empty]
     ELSE [err |-> "", host |-> u.Host, path |-> pathParts[1]]

\* ResolveShortPath up to the lookup: the error, or the host and path looked up
resolveKey(rawURL) ==
  LET u == ParseURL(rawURL)
      normalizedHost == removePreviewFromHost(u.Host)
      pathParts == Split(Trim(u.Path, "/"), "/")
  IN IF u.err THEN [err |-> ErrInvalidRequestedLink, host |-> Empty, path |-> Empty]
     ELSE IF Len(pathParts) # 1
          THEN [err |-> ErrInvalidPathFormat, host |-> Empty, path |-> Empty]
     ELSE [err |-> "", host |-> normalizedHost, path |-> pathParts[1]]

ErrInvalidURLFormat == "invalid url format"
ErrHostInvalid == "host invalid"

\* the value read from the query when it is not empty, else what the field holds
orElse(value, held) == IF value # Empty THEN value ELSE held

\* the string an optional setting points to, empty when it is nil
defaultOf(opt) == IF opt.set THEN opt.value ELSE Empty

\* ParseLongDurableLink, the Android block, were the version read under "apv"
parseAndroidApv(r, q, c) ==
  [r EXCEPT !.AndroidPackageName =
              orElse(Get(q, <<"a","p","n">>), defaultOf(c.DefaultAndroidPackageName)),
            !.AndroidFallbackLink = orElse(Get(q, <<"a","f","l">>), @),
            !.AndroidMinPackageVersionCode = orElse(Get(q, <<"a","p","v">>), @)]

\* ParseLongDurableLink, the Android block: the default, then the query
parseAndroid(r, q, c) ==
  [r EXCEPT !.AndroidPackageName =
              orElse(Get(q, <<"a","p","n">>), defaultOf(c.DefaultAndroidPackageName)),
            !.AndroidFallbackLink = orElse(Get(q, <<"a","f","l">>), @),
            !.AndroidMinPackageVersionCode = orElse(Get(q, <<"a","m","v">>), @)]

\* ParseLongDurableLink, the iOS block: the default, then the query
parseIos(r, q, c) ==
  [r EXCEPT !.IosAppStoreId = orElse(Get(q, <<"i","s","i">>), defaultOf(c.DefaultIosStoreId)),
            !.IosFallbackLink = orElse(Get(q, <<"i","f","l">>), @),
            !.IosIpadFallbackLink = orElse(Get(q, <<"i","p","f","l">>), @)]

\* ParseLongDurableLink, the other-platform, analytics and social fields and the suffix
parseRemaining(r, q) ==
  [r EXCEPT !.FallbackURL = orElse(Get(q, <<"o","f","l">>), @),
            !.UtmSource = orElse(Get(q, <<"u","t","m","_","s","o","u","r","c","e">>), @),
            !.UtmMedium = orElse(Get(q, <<"u","t","m","_","m","e","d","i","u","m">>), @),
            !.UtmCampaign = orElse(Get(q, <<"u","t","m","_","c","a","m","p","a","i","g","n">>), @),
            !.UtmTerm = orElse(Get(q, <<"u","t","m","_","t","e","r","m">>), @),
            !.UtmContent = orElse(Get(q, <<"u","t","m","_","c","o","n","t","e","n","t">>), @),
            !.At = orElse(Get(q, <<"a","t">>), @),
            !.Ct = orElse(Get(q, <<"c","t">>), @),
            !.Mt = orElse(Get(q, <<"m","t">>), @),
            !.Pt = orElse(Get(q, <<"p","t">>), @),
            !.SocialTitle = orElse(Get(q, <<"s","t">>), @),
            !.SocialDescription = orElse(Get(q, <<"s","d">>), @),
            !.SocialImageLink = orElse(Get(q, <<"s","i">>), @),
            !.Option = orElse(Get(q, <<"p","a","t","h">>), @)]

\* ParseLongDurableLink, the request read from the host and the query values
parseFields(host, q, c) ==
  parseRemaining(
    parseIos(
      parseAndroid([EmptyRequest EXCEPT !.Host = host, !.Link = Get(q, <<"l","i","n","k">>)], q, c),
      q, c),
    q)

\* ParseLongDurableLink once the URL is parsed
parseParsedURL(u, c) ==
  IF u.err THEN [err |-> ErrInvalidURLFormat, req |-> EmptyRequest]
  ELSE IF u.Host = Empty THEN [err |-> ErrHostInvalid, req |-> EmptyRequest]
  ELSE [err |-> "", req |-> parseFields(u.Host, ParseQuery(u.RawQuery), c)]

\* ParseLongDurableLink under the defaults c: the error, or the request
parseLongLink(longDurableLink, c) == parseParsedURL(ParseURL(longDurableLink), c)

\* ------------------------------------------------------------------ state
VARIABLES
  store,   \* the rows of the links table
  req,     \* req[c]: the creation request served for client c
  res,     \* the last resolution request served
  cfg,     \* the optional defaults of the configuration
  parsed   \* the last long link parsed

vars == << store, req, res, cfg, parsed >>

Clients == 1..NumClients

\* a creation request not yet received
IdleRequest ==
  [pc |-> "idle", params |-> EmptyRequest, host |-> Empty, rawQS |-> Empty,
   short |-> FALSE, warnings |-> << >>, lookups |-> 0, puts |-> 0,
   path |-> Empty, err |-> "", cause |-> "", ShortLink |-> Empty,
   Warnings |-> << >>, lookupErr |-> ""]

\* no resolution request served yet
NoResolution ==
  [done |-> FALSE, url |-> Empty, returned |-> FALSE, lookups |-> 0,
   host |-> Empty, path |-> Empty, err |-> "", LongLink |-> Empty]

\* an optional string of the configuration: nil, or set to a value
Nil == [set |-> FALSE, value |-> Empty]

\* NewAppConfig: no default package name and no default store id
NoDefaults == [DefaultAndroidPackageName |-> Nil, DefaultIosStoreId |-> Nil]

\* no long link parsed yet
NoParse == [done |-> FALSE, longLink |-> Empty, err |-> "", req |-> EmptyRequest]

\* the requests of the examples
XLink == <<"x",".","l","i","n","k">>
ExampleLink == <<"h","t","t","p","s",":","/","/","e","x","a","m","p","l","e",".","c","o","m">>
Short == <<"S","H","O","R","T">>
Base == [EmptyRequest EXCEPT !.Host = XLink, !.Link = ExampleLink]

SuffixOptions == { Short, <<"U","N","G","U","E","S","S","A","B","L","E">>, Empty, <<"s","h","o","r","t">> }

Requests ==
  { [Base EXCEPT !.Option = o] : o \in { Short, Empty } }
  \cup { [Base EXCEPT !.Host = <<"p","r","e","v","i","e","w",".","x",".","l","i","n","k">>, !.Option = Short] }

Init ==
  /\ store = {}
  /\ req = [c \in Clients |-> IdleRequest]
  /\ res = NoResolution
  /\ cfg = NoDefaults
  /\ parsed = NoParse

\* ---------------------------------------------------------------- actions
\* createOrGetShortLink, were a duplicate path answered by another attempt
storeFailedRetry(r, cause) ==
  IF cause = ErrDuplicatePath /\ r.puts < 3 THEN [r EXCEPT !.pc = "insert"]
  ELSE [r EXCEPT !.pc = "done", !.err = ErrStoreFailed, !.cause = cause]

\* createOrGetShortLink: a failed insert ends the request with the wrapped error
storeFailed(r, cause) == [r EXCEPT !.pc = "done", !.err = ErrStoreFailed, !.cause = cause]

\* the response of a request that succeeded with this path
succeeded(r, path) ==
  [r EXCEPT !.pc = "done", !.path = path, !.ShortLink = fullLink(r.host, path),
            !.Warnings = r.warnings]

\* CreateDurableLink up to the first call of the repository
CreateDurableLink(c, params) ==
  /\ req[c].pc = "idle"
  /\ LET e == validate(params)
         r == [req[c] EXCEPT !.params = params]
     IN req' = [req EXCEPT ![c] =
          IF e # "" THEN [r EXCEPT !.pc = "done", !.err = e]
          ELSE [r EXCEPT !.pc = IF lookupFirst(shortPath(params)) THEN "find" ELSE "insert",
                         !.host = CleanHost(params.Host).host,
                         !.rawQS = Encode(queryParams(params)),
                         !.short = shortPath(params),
                         !.warnings = warnings(params)]]
  /\ UNCHANGED << store, res, cfg, parsed >>

\* createOrGetShortLink after the reuse lookup, were every error of the lookup
\* taken for "no rows"
afterLookupLenient(r, a) ==
  IF a.err = "" THEN succeeded(r, a.path)
  ELSE [r EXCEPT !.pc = "insert"]

\* createOrGetShortLink after the reuse lookup answered a: the row's link, the
\* lookup's error, or on to the insertion when there are no rows
afterLookup(r, a) ==
  IF a.err = "" THEN succeeded(r, a.path)
  ELSE IF a.err # ErrNoRows THEN [r EXCEPT !.pc = "done", !.err = a.err]
  ELSE [r EXCEPT !.pc = "insert"]

\* createOrGetShortLink: the reuse lookup and what follows from its answer
findExistingShortLink(c) ==
  /\ req[c].pc = "find"
  /\ \E a \in FindExistingShortLink(store, req[c].host, req[c].rawQS) :
       req' = [req EXCEPT ![c] =
         afterLookup([req[c] EXCEPT !.lookups = @ + 1, !.lookupErr = a.err], a)]
  /\ UNCHANGED << store, res, cfg, parsed >>

\* createOrGetShortLink: the generation of a path and its insertion
createShortLink(c) ==
  /\ req[c].pc = "insert"
  /\ \E path \in GenerateRandomAlphanumericString(pathLength(req[c].short)) :
       \E a \in CreateShortLink(store, req[c].host, path, req[c].rawQS,
                                unguessableFlag(req[c].short)) :
         LET r == [req[c] EXCEPT !.puts = @ + 1]
         IN /\ store' = a.rows
            /\ req' = [req EXCEPT ![c] =
                 IF a.err # "" THEN storeFailed(r, a.err) ELSE succeeded(r, path)]
  /\ UNCHANGED << res, cfg, parsed >>

\* the short links returned so far
Returned == { req[c].ShortLink : c \in {d \in Clients : req[d].pc = "done" /\ req[d].err = ""} }

\* ResolveShortPath and getLongLinkFromHostAndPath
ResolveShortPath(rawURL) ==
  /\ LET k == resolveKey(rawURL)
         r == [NoResolution EXCEPT !.done = TRUE, !.url = rawURL,
                                   !.returned = rawURL \in Returned]
     IN IF k.err # "" THEN res' = [r EXCEPT !.err = k.err]
        ELSE \E a \in GetQueryParamsByHostAndPath(store, k.host, k.path) :
               LET r1 == [r EXCEPT !.lookups = 1, !.host = k.host, !.path = k.path]
               IN res' = IF a.err # "" THEN [r1 EXCEPT !.err = a.err]
                         ELSE [r1 EXCEPT !.LongLink = longLinkOf(k.host, k.path, a.query)]
  /\ UNCHANGED << store, req, cfg, parsed >>

Next ==
  \/ \E c \in Clients, p \in Requests : CreateDurableLink(c, p)
  \/ \E c \in Clients : findExistingShortLink(c)
  \/ \E c \in Clients : createShortLink(c)
  \/ \E l \in Returned : ResolveShortPath(l)

\* any number of requests in flight, in any interleaving of their repository calls
Spec == Init /\ [][Next]_vars

\* ------------------------------------------- one request after the other
RequestsSeq ==
  { [Base EXCEPT !.Option = o] : o \in SuffixOptions }
  \cup { [Base EXCEPT !.Host = <<"h","t","t","p","s",":","/","/","x",".","l","i","n","k","/","p","r","o","m","o">>, !.Option = Short],
         [Base EXCEPT !.UtmSource = <<"a"," ","b">>, !.AndroidPackageName = <<"c","o","m",".","x">>,
                      !.Option = Short],
         [Base EXCEPT !.Host = Empty],
         [Base EXCEPT !.Link = <<"h","t","t","p","s",":","/","/","e","v","i","l",".","o","r","g","/","x">>],
         [Base EXCEPT !.IosAppStoreId = <<"1","2","a">>] }

\* client c is served once every client before it has its response
CreateInTurn(c, params) ==
  /\ \A d \in Clients : d < c => req[d].pc = "done"
  /\ CreateDurableLink(c, params)

NextSeq ==
  \/ \E c \in Clients, p \in RequestsSeq : CreateInTurn(c, p)
  \/ \E c \in Clients : findExistingShortLink(c)
  \/ \E c \in Clients : createShortLink(c)

SpecSeq == Init /\ [][NextSeq]_vars

\* ------------------------------------ resolution over the rows of a table
ExampleQuery == Encode(queryParams(Base))

\* a row with an empty query, as no creation request writes it
LegacyRow == [host |-> XLink, path |-> <<"l","e","g","a","c","y">>, query |-> Empty, unguessable |-> FALSE]

\* rows as creation requests write them, and the row with an empty query
TableRows ==
  { [host |-> XLink, path |-> <<"a","a","a","a","a","a">>, query |-> ExampleQuery, unguessable |-> FALSE],
    [host |-> <<"f","o","o",".","c","o","m">>, path |-> <<"a","a","a","a","a","a","a","a","a","a">>, query |-> ExampleQuery, unguessable |-> TRUE],
    [host |-> <<"f","o","o",".","b","a","r",".","c","o","m">>, path |-> <<"a","a","a","a","a","a">>, query |-> ExampleQuery, unguessable |-> FALSE],
    [host |-> <<"p","r","e","v","i","e","w",".","x",".","l","i","n","k">>, path |-> <<"a","a","a","a","a","a">>, query |-> ExampleQuery, unguessable |-> FALSE],
    LegacyRow }

ClickedHosts ==
  { XLink, <<"p","r","e","v","i","e","w",".","x",".","l","i","n","k">>, <<"x","-","p","r","e","v","i","e","w",".","l","i","n","k">>, <<"f","o","o",".","c","o","m">>, <<"p","r","e","v","i","e","w",".","f","o","o",".","c","o","m">>,
    <<"f","o","o","-","p","r","e","v","i","e","w",".","b","a","r",".","c","o","m">>, <<"p","r","e","v","i","e","w",".","f","o","o","-","p","r","e","v","i","e","w",".","b","a","r",".","c","o","m">>, <<"x","-","p","r","e","v","i","e","w">> }

ClickedPaths ==
  { <<"/","a","a","a","a","a","a">>, <<"/","a","a","a","a","a","a","/">>, <<"/","a","a","a","a","a","a","a","a","a","a">>, <<"/","l","e","g","a","c","y">>, <<"/","a","/","b">>, <<"/">>, Empty }

ClickedURLs ==
  { URLScheme \o <<":","/","/">> \o h \o p : h \in ClickedHosts, p \in ClickedPaths }
  \cup { <<":","x",".","l","i","n","k","/","a","a","a","a","a","a">>, <<"h","t","t","p","s",":","/","/","x"," ","l","i","n","k","/","a","a","a","a","a","a">> }

InitResolve ==
  /\ store \in SUBSET TableRows
  /\ req = [c \in Clients |-> IdleRequest]
  /\ res = NoResolution
  /\ cfg = NoDefaults
  /\ parsed = NoParse

\* one click on each table
ResolveClicked(l) == ~res.done /\ ResolveShortPath(l)

NextResolve == \E l \in ClickedURLs : ResolveClicked(l)

SpecResolve == InitResolve /\ [][NextResolve]_vars

\* --------------------------------- one request, over the analytics fields
WarnRequests ==
  { [Base EXCEPT !.IosAppStoreId = isi, !.At = at, !.Ct = ct, !.Mt = mt, !.Pt = pt,
                 !.SocialImageLink = si, !.Option = o] :
      o \in { Short, Empty }, isi \in { Empty, <<"1","2","3">> }, at \in { Empty, <<"x">> }, ct \in { Empty, <<"c">> },
      mt \in { Empty, <<"8">> }, pt \in { Empty, <<"y">> },
      si \in { Empty, <<"l","o","g","o">>, <<"h","t","t","p","s",":","/","/","e","x","a","m","p","l","e",".","c","o","m","/","a">> } }

NextWarn ==
  \/ \E p \in WarnRequests : CreateDurableLink(1, p)
  \/ findExistingShortLink(1)
  \/ createShortLink(1)

SpecWarn == Init /\ [][NextWarn]_vars

\* -------------------- one request over the platform blocks, then a parse
\* ParseLongDurableLink
ParseLongDurableLink(longDurableLink) ==
  /\ parsed' = [done |-> TRUE, longLink |-> longDurableLink,
                err |-> parseLongLink(longDurableLink, cfg).err,
                req |-> parseLongLink(longDurableLink, cfg).req]
  /\ UNCHANGED << store, req, res, cfg >>

\* the defaults an environment may set
Configs ==
  { [DefaultAndroidPackageName |-> a, DefaultIosStoreId |-> i] :
      a \in { Nil, [set |-> TRUE, value |-> <<"c","o","m",".","d">>] },
      i \in { Nil, [set |-> TRUE, value |-> <<"9","9","9">>] } }

\* requests with the host, the link and the fields of one platform block
PlatformRequests ==
  { [Base EXCEPT !.AndroidPackageName = apn, !.AndroidFallbackLink = afl,
                 !.AndroidMinPackageVersionCode = amv] :
      apn \in { Empty, <<"c","o","m",".","x">> }, afl \in { Empty, <<"h","t","t","p","s",":","/","/","e","x","a","m","p","l","e",".","c","o","m","/","a","?","b","=","c","&","d">> },
      amv \in { Empty, <<"1","2">> } }
  \cup { [Base EXCEPT !.IosAppStoreId = isi, !.IosFallbackLink = ifl,
                      !.IosIpadFallbackLink = ipfl] :
           isi \in { Empty, <<"1","2","3">> }, ifl \in { Empty, <<"h","t","t","p","s",":","/","/","e","x","a","m","p","l","e",".","c","o","m","/","i"," ","o","s">> },
           ipfl \in { Empty, <<"h","t","t","p","s",":","/","/","e","x","a","m","p","l","e",".","c","o","m","/","1","0","0","%","+","#","p","a","d">> } }
  \cup { [Base EXCEPT !.FallbackURL = <<"h","t","t","p","s",":","/","/","e","x","a","m","p","l","e",".","c","o","m","/","o","=","1">>] }

\* the long link of a returned short link, and links that do not parse
LongLinks ==
  { longLinkOf(req[c].host, req[c].path, req[c].rawQS) :
      c \in {d \in Clients : req[d].pc = "done" /\ req[d].err = ""} }
  \cup { <<":","x",".","l","i","n","k","/","?","l","i","n","k","=","a">>, <<"/","a","a","a","a","a","a","?","l","i","n","k","=","a">> }

InitParse ==
  /\ store = {}
  /\ req = [c \in Clients |-> IdleRequest]
  /\ res = NoResolution
  /\ cfg \in Configs
  /\ parsed = NoParse

NextParse ==
  \/ \E p \in PlatformRequests : CreateDurableLink(1, p)
  \/ createShortLink(1)
  \/ \E l \in LongLinks : ParseLongDurableLink(l)

SpecParse == InitParse /\ [][NextParse]_vars

\* ------------------------- requests and clicks over a table that has rows
FrameStores == { {}, TableRows }

\* a request that reuses, one that does not, and one for each check that fails
FrameRequests ==
  { [Base EXCEPT !.Option = Short],
    Base,
    [Base EXCEPT !.Host = Empty],
    [Base EXCEPT !.Link = <<"h","t","t","p","s",":","/","/","e","v","i","l",".","o","r","g","/","x">>],
    [Base EXCEPT !.IosAppStoreId = <<"1","2","a">>] }

FrameURLs ==
  { <<"h","t","t","p","s",":","/","/","x",".","l","i","n","k","/","a","a","a","a","a","a">>, <<"h","t","t","p","s",":","/","/","p","r","e","v","i","e","w",".","x",".","l","i","n","k","/","a","a","a","a","a","a">>,
    <<"h","t","t","p","s",":","/","/","x",".","l","i","n","k","/","n","o","s","u","c","h">>, <<"h","t","t","p","s",":","/","/","x",".","l","i","n","k","/","a","/","b">>, <<":","x",".","l","i","n","k","/","a","a","a","a","a","a">> }

InitFrame ==
  /\ store \in FrameStores
  /\ req = [c \in Clients |-> IdleRequest]
  /\ res = NoResolution
  /\ cfg = NoDefaults
  /\ parsed = NoParse

NextFrame ==
  \/ \E c \in Clients, p \in FrameRequests : CreateDurableLink(c, p)
  \/ \E c \in Clients : findExistingShortLink(c)
  \/ \E c \in Clients : createShortLink(c)
  \/ \E l \in FrameURLs : ResolveClicked(l)

SpecFrame == InitFrame /\ [][NextFrame]_vars

\* ------------------------------------------------------------- properties
Done(c) == req[c].pc = "done"

Ok(c) == Done(c) /\ req[c].err = ""

\* the fields of a request other than its host
Fields(c) == [req[c].params EXCEPT !.Host = Empty]

SamePayload(c, d) == req[c].host = req[d].host /\ Fields(c) = Fields(d)

RowsFor(host, rawQS) == {x \in store : x.host = host /\ x.query = rawQS}

WithQuery(link, rawQS) == IF rawQS = Empty THEN link ELSE link \o << "?" >> \o rawQS

\* C1: under SpecSeq (client d is served after client c has its response), two
\* successful SHORT requests with the same host and fields return the same short
\* link, the later one inserts nothing, and the table holds one row for that
\* (host, query) besides the rows of the non-SHORT requests for it.
C1_SequentialReuse ==
  \A c \in Clients, d \in Clients :
    (c < d /\ Ok(c) /\ Ok(d) /\ req[c].short /\ req[d].short /\ SamePayload(c, d))
    => /\ req[d].ShortLink = req[c].ShortLink
       /\ req[d].puts = 0
       /\ Cardinality(RowsFor(req[c].host, req[c].rawQS))
            = 1 + Cardinality({e \in Clients : Ok(e) /\ ~req[e].short
                                 /\ req[e].host = req[c].host /\ req[e].rawQS = req[c].rawQS})

C1_Witness ==
  \E c \in Clients, d \in Clients :
    c < d /\ Ok(c) /\ Ok(d) /\ req[c].short /\ req[d].short /\ SamePayload(c, d)
    /\ req[c].puts = 1

\* C2: whenever the store answers, resolving a short link that a creation request
\* returned succeeds and gives that link followed by "?" and the query persisted
\* for the request (and the bare link when that query is empty).
C2_CreateThenResolve ==
  (res.done /\ res.returned /\ res.err # ErrDB)
  => \E c \in Clients :
       /\ Ok(c) /\ req[c].ShortLink = res.url
       /\ res.err = ""
       /\ res.LongLink = WithQuery(res.url, req[c].rawQS)

\* C3 as amended: on a hit the row is the one of the normalized host and the
\* path, and the long link is built on the normalized host: scheme://host/path,
\* followed by "?" and the row's query unless that query is empty.
C3_LongLinkOnNormalizedHost ==
  (res.done /\ res.err = "")
  => LET n == removePreviewFromHost(ParseURL(res.url).Host)
     IN /\ ParseURL(res.LongLink).Host = n
        /\ \E x \in store :
             /\ x.host = n
             /\ x.path = Trim(ParseURL(res.url).Path, "/")
             /\ res.LongLink = WithQuery(URLScheme \o <<":","/","/">> \o n \o << "/" >> \o x.path, x.query)

C3_Witness ==
  /\ res.done /\ res.err = ""
  /\ ParseURL(res.url).Host # removePreviewFromHost(ParseURL(res.url).Host)

\* C3 as stated: on a hit the long link's host is the host that was requested.
C3_LongLinkOnRequestedHost ==
  (res.done /\ res.err = "") => ParseURL(res.LongLink).Host = ParseURL(res.url).Host

\* two SHORT requests with the same host and fields that both missed the reuse
\* lookup and both inserted
Raced(c, d) ==
  /\ c # d /\ Ok(c) /\ Ok(d) /\ req[c].short /\ req[d].short /\ SamePayload(c, d)
  /\ req[c].lookups = 1 /\ req[d].lookups = 1 /\ req[c].puts = 1 /\ req[d].puts = 1

\* C4: after two identical SHORT requests both missed the lookup and both
\* inserted, their paths differ, no two rows share (host, path), and each
\* returned link resolves (when the store answers) to the link with that query.
C4_RaceStillResolves ==
  \A c \in Clients, d \in Clients :
    Raced(c, d)
    => /\ req[c].path # req[d].path
       /\ \A x \in store, y \in store : (x.host = y.host /\ x.path = y.path) => x = y
       /\ (res.done /\ res.returned /\ res.url = req[c].ShortLink /\ res.err # ErrDB)
          => (res.err = "" /\ res.LongLink = WithQuery(req[c].ShortLink, req[c].rawQS))

RowOf(c, unguessable) ==
  [host |-> req[c].host, path |-> req[c].path, query |-> req[c].rawQS,
   unguessable |-> unguessable]

\* C6: a request whose option is not SHORT never makes the reuse lookup; when it
\* succeeds it has inserted one row, unguessable, with a path of the unguessable
\* length; two such successful requests with the same host and fields have
\* different paths; a SHORT request that inserted has a guessable row with a path
\* of the short length.
C6_NonShortAlwaysFresh ==
  \A c \in Clients :
    /\ req[c].params.Option # Short => req[c].lookups = 0
    /\ (Ok(c) /\ req[c].params.Option # Short)
       => (req[c].puts = 1 /\ Len(req[c].path) = UnguessablePathLength
           /\ RowOf(c, TRUE) \in store /\ RowOf(c, FALSE) \notin store)
    /\ (Ok(c) /\ req[c].params.Option = Short /\ req[c].puts = 1)
       => (Len(req[c].path) = ShortPathLength
           /\ RowOf(c, FALSE) \in store /\ RowOf(c, TRUE) \notin store)
    /\ \A d \in Clients :
         (c # d /\ Ok(c) /\ Ok(d) /\ req[c].params.Option # Short
          /\ req[d].params.Option # Short /\ SamePayload(c, d))
         => req[c].path # req[d].path

C6_Witness ==
  \E c \in Clients, d \in Clients :
    /\ c # d /\ Ok(c) /\ Ok(d) /\ SamePayload(c, d)
    /\ req[c].params.Option \notin { Short, Empty } /\ req[d].params.Option # Short

\* C7: an unparsable URL fails with the invalid-requested-link error; otherwise
\* the store is looked up exactly when the path, trimmed of slashes, is one
\* non-empty segment, and any other path fails with the path-format error
\* without a lookup.
C7_OneNonEmptySegment ==
  res.done
  => LET u == ParseURL(res.url)
         t == Trim(u.Path, "/")
     IN IF u.err THEN res.err = ErrInvalidRequestedLink /\ res.lookups = 0
        ELSE IF t # Empty /\ IndexByte(t, "/") = 0 THEN res.lookups = 1
        ELSE res.err = ErrInvalidPathFormat /\ res.lookups = 0

\* C8: the host looked up is the requested host without a leading "preview.",
\* or else without the "-preview" that ends its first label when a "." follows
\* that label, or else the requested host itself.
C8_PreviewNormalization ==
  (res.done /\ res.lookups = 1)
  => LET h == ParseURL(res.url).Host
         dot == IndexByte(h, ".")
         expected ==
           IF Len(h) >= 8 /\ SubSeq(h, 1, 8) = <<"p","r","e","v","i","e","w",".">> THEN SubSeq(h, 9, Len(h))
           ELSE IF dot > 8 /\ SubSeq(h, dot - 8, dot - 1) = <<"-","p","r","e","v","i","e","w">>
                THEN SubSeq(h, 1, dot - 9) \o SubSeq(h, dot, Len(h))
           ELSE h
     IN /\ res.host = expected
        /\ h = <<"p","r","e","v","i","e","w",".","f","o","o",".","c","o","m">> => res.host = <<"f","o","o",".","c","o","m">>
        /\ h = <<"f","o","o","-","p","r","e","v","i","e","w",".","b","a","r",".","c","o","m">> => res.host = <<"f","o","o",".","b","a","r",".","c","o","m">>
        /\ h = <<"f","o","o",".","c","o","m">> => res.host = <<"f","o","o",".","c","o","m">>

C8_Witness ==
  /\ res.done /\ res.lookups = 1
  /\ ParseURL(res.url).Host = <<"f","o","o","-","p","r","e","v","i","e","w",".","b","a","r",".","c","o","m">> /\ res.host = <<"f","o","o",".","b","a","r",".","c","o","m">>

\* the number of UNRECOGNIZED_PARAM warnings of a response with one of the messages
Count(W, msgs) ==
  Cardinality({i \in 1..Len(W) : W[i].WarningCode = "UNRECOGNIZED_PARAM"
                                  /\ W[i].WarningMessage \in msgs})

One(cond) == IF cond THEN 1 ELSE 0

AllMsgs == { MsgAtIsi, MsgCtIsi, MsgMtIsi, MsgPtIsi, MsgAtPt, MsgCtPt, MsgMtPt }

\* "key=value" is one of the pairs of the encoded query
Encoded(rawQS, key, value) ==
  \E i \in 1..Len(Split(rawQS, "&")) : Split(rawQS, "&")[i] = key \o << "=" >> \o value

\* C9: a response carries one UNRECOGNIZED_PARAM for each non-empty at, ct, mt, pt
\* when isi is empty and one more for each non-empty at, ct, mt when pt is
\* empty, and no other; at has two when isi and pt are both empty; there is
\* none when both are set; the flagged parameters are in the encoded query.
C9_DependencyWarnings ==
  \A c \in Clients :
    Ok(c)
    => LET p == req[c].params
           W == req[c].Warnings
           noIsi == p.IosAppStoreId = Empty
           noPt == p.Pt = Empty
       IN /\ Count(W, {MsgAtIsi}) = One(noIsi /\ p.At # Empty)
          /\ Count(W, {MsgCtIsi}) = One(noIsi /\ p.Ct # Empty)
          /\ Count(W, {MsgMtIsi}) = One(noIsi /\ p.Mt # Empty)
          /\ Count(W, {MsgPtIsi}) = One(noIsi /\ p.Pt # Empty)
          /\ Count(W, {MsgAtPt}) = One(noPt /\ p.At # Empty)
          /\ Count(W, {MsgCtPt}) = One(noPt /\ p.Ct # Empty)
          /\ Count(W, {MsgMtPt}) = One(noPt /\ p.Mt # Empty)
          /\ Count(W, AllMsgs)
               = Cardinality({i \in 1..Len(W) : W[i].WarningCode = "UNRECOGNIZED_PARAM"})
          /\ (noIsi /\ noPt /\ p.At # Empty) => Count(W, {MsgAtIsi, MsgAtPt}) = 2
          /\ (~noIsi /\ ~noPt) => Count(W, AllMsgs) = 0
          /\ p.At # Empty => Encoded(req[c].rawQS, <<"a","t">>, p.At)
          /\ p.Ct # Empty => Encoded(req[c].rawQS, <<"c","t">>, p.Ct)
          /\ p.Mt # Empty => Encoded(req[c].rawQS, <<"m","t">>, p.Mt)
          /\ p.Pt # Empty => Encoded(req[c].rawQS, <<"p","t">>, p.Pt)

C9_Witness ==
  \E c \in Clients :
    /\ Ok(c) /\ req[c].params.IosAppStoreId = Empty /\ req[c].params.Pt = Empty
    /\ req[c].params.At # Empty /\ req[c].params.Ct # Empty
    /\ Count(req[c].Warnings, AllMsgs) = 4

AtCount(c) == Count(req[c].Warnings, {MsgAtIsi, MsgAtPt})

\* C10 as amended: with isi empty and at = "x", the response has two
\* UNRECOGNIZED_PARAM warnings for at when pt is empty (one of each check) and
\* exactly one, of the isi check, when pt = "y".
C10_AtWarningCountsAmended ==
  \A c \in Clients :
    (Ok(c) /\ req[c].params.IosAppStoreId = Empty /\ req[c].params.At = <<"x">>)
    => /\ req[c].params.Pt = Empty
          => (AtCount(c) = 2 /\ Count(req[c].Warnings, {MsgAtIsi}) = 1
              /\ Count(req[c].Warnings, {MsgAtPt}) = 1)
       /\ req[c].params.Pt = <<"y">>
          => (AtCount(c) = 1 /\ Count(req[c].Warnings, {MsgAtIsi}) = 1)

C10_Witness ==
  \E c \in Clients :
    /\ Ok(c) /\ req[c].params.IosAppStoreId = Empty /\ req[c].params.At = <<"x">>
    /\ req[c].params.Pt = <<"y">> /\ AtCount(c) = 1

\* C10 as stated: with isi empty and at = "x", one warning for at when nothing
\* else is set, and two when pt = "y".
C10_AtWarningCounts ==
  \A c \in Clients :
    (Ok(c) /\ req[c].params.IosAppStoreId = Empty /\ req[c].params.At = <<"x">>)
    => /\ req[c].params.Pt = Empty => AtCount(c) = 1
       /\ req[c].params.Pt = <<"y">> => AtCount(c) = 2

\* the long link of client 1's returned short link has been parsed
ParsedBack ==
  /\ Ok(1)
  /\ parsed.done
  /\ parsed.longLink = longLinkOf(req[1].host, req[1].path, req[1].rawQS)

\* C11: under SpecParse (a description d with the host, the target link and
\* the fields of one platform block, encoded by CreateDurableLink and parsed
\* back by ParseLongDurableLink under the configuration), the parse succeeds
\* and gives back d in every field, except that an empty Android package name
\* or an empty iOS store id comes back as the configured default when the
\* configuration sets one.
C11_RoundTripUpToDefaults ==
  ParsedBack =>
    /\ parsed.err = ""
    /\ parsed.req =
         [req[1].params EXCEPT
            !.AndroidPackageName =
               IF @ = Empty /\ cfg.DefaultAndroidPackageName.set
               THEN cfg.DefaultAndroidPackageName.value ELSE @,
            !.IosAppStoreId =
               IF @ = Empty /\ cfg.DefaultIosStoreId.set
               THEN cfg.DefaultIosStoreId.value ELSE @]
    /\ (cfg = NoDefaults => parsed.req = req[1].params)

\* a description with the iOS block only is parsed back under a default
\* Android package name: the iOS fields return, the package name is the default
C11_Witness ==
  /\ ParsedBack
  /\ parsed.err = ""
  /\ cfg.DefaultAndroidPackageName.set
  /\ req[1].params.AndroidPackageName = Empty
  /\ req[1].params.IosFallbackLink # Empty
  /\ req[1].params.IosIpadFallbackLink # Empty
  /\ parsed.req.IosFallbackLink = req[1].params.IosFallbackLink
  /\ parsed.req.IosIpadFallbackLink = req[1].params.IosIpadFallbackLink
  /\ parsed.req.AndroidPackageName = cfg.DefaultAndroidPackageName.value

\* C11 as stated: the parse gives back d in every field
C11_RoundTrip ==
  ParsedBack => parsed.err = "" /\ parsed.req = req[1].params

\* client c's request is one that fails before allocation: its host does not
\* clean, its link's domain is not allowed, its store id is not numeric, or its
\* reuse lookup answered an error other than "no rows"
FailsBeforeAllocation(c) ==
  \/ /\ req[c].pc # "idle"
     /\ \/ CleanHost(req[c].params.Host).err
        \/ ~IsDomainAllowed(AllowedDomains, req[c].params.Link)
        \/ /\ req[c].params.IosAppStoreId # Empty
           /\ ~IsNumericString(req[c].params.IosAppStoreId)
  \/ req[c].lookupErr \notin {"", ErrNoRows}

\* what such a request has come to: an error, no path, no insert, no short link
EndedWithoutAllocation(c) ==
  /\ Done(c)
  /\ req[c].err # ""
  /\ req[c].puts = 0
  /\ req[c].path = Empty
  /\ req[c].ShortLink = Empty

\* C12: under SpecFrame (requests of any number of clients and clicks, over an
\* empty table and over a table with rows), a request whose host does not
\* clean, whose link's domain is not allowed, whose store id is not numeric or
\* whose reuse lookup answers an error other than "no rows" has ended with an
\* error, without a path generated and without an insert; a step of a request
\* that is not an insert leaves the table as it was, so that no step of such a
\* request changes it; and no resolution, succeeding or failing, changes the
\* table.
C12_FailuresAndResolutionsLeaveStore ==
  /\ [](\A c \in Clients : FailsBeforeAllocation(c) => EndedWithoutAllocation(c))
  /\ [][ /\ \A c \in Clients :
             (req'[c] # req[c] /\ req'[c].puts = req[c].puts) => store' = store
        /\ res' # res => store' = store ]_vars

\* over a table with rows, one request failed in its reuse lookup, another on
\* its store id, and a click was resolved to a long link
C12_Witness ==
  /\ store # {}
  /\ \E c \in Clients : Done(c) /\ req[c].lookupErr = ErrDB /\ req[c].err = ErrDB
                         /\ req[c].lookups = 1
  /\ \E c \in Clients : Done(c) /\ req[c].err = ErrInvalidAppStoreID
  /\ res.done /\ res.err = "" /\ res.LongLink # Empty

====
